---- MODULE Spec2Model ----
(***************************************************************************)
(* Model of the InventoryPredictor React component (three variants of the  *)
(* component live in the repository: the reorder-point variant, the        *)
(* days-to-replenish variant and the plain stock-versus-sales variant).    *)
(*                                                                         *)
(* State: the component's five useState cells, the pending catalog fetch,  *)
(* every invocation of the async handlePredict (its position at an await,  *)
(* its locals), and the number of live tf tensors.                         *)
(***************************************************************************)
EXTENDS Integers, Sequences, FiniteSets, TLC

\* ------------------------------------------------------------------ bounds
MaxCatalog == 2    \* longest catalog the fetch delivers
MaxRuns == 2       \* number of handlePredict invocations
MaxNum == 2        \* numeric fields range over -MaxNum..MaxNum plus landmarks

\* ------------------------------------------------------- JavaScript values
\* A field of a fetched JSON record is a number, null, or absent (undefined).
Undefined == [k |-> "undefined", v |-> 0]
Null == [k |-> "null", v |-> 0]
Num(n) == [k |-> "number", v |-> n]

\* x || 0 : undefined, null and 0 are falsy, every other number is kept.
OrZero(x) == IF x.k = "number" THEN x.v ELSE 0

\* x <= y on JS values: ToNumber(undefined) is NaN and every comparison with
\* NaN is false; ToNumber(null) is 0.
JsLessEq(x, y) ==
    IF x.k = "undefined" \/ y.k = "undefined"
    THEN FALSE
    ELSE OrZero(x) <= OrZero(y)

\* Math.floor(a / b) on exact integers, b # 0.
FloorDiv(a, b) == IF b > 0 THEN a \div b ELSE (0 - a) \div (0 - b)

\* ------------------------------------------------------------ pure helpers
calculateReorderPoint(avgSales, leadTime) ==
    LET sales == OrZero(avgSales)
        time == OrZero(leadTime)
    IN  sales * time

Sentinel == 999

\* The pairs <<safeStock, safeSales>> with both components in
\* -25..25 \cup {999, 1000} for which the IEEE-754 double evaluation of
\* safeStock / (safeSales / 7) falls just below the exact integer quotient
\* (safeSales / 7 is rounded up), so that Math.floor returns one less than
\* floor(7 * safeStock / safeSales).
RoundedBelow ==
    { <<-18, -18>>, <<-18, -9>>, <<-17, 17>>, <<-9, -9>>, <<9, 9>>,
      <<17, -17>>, <<18, 9>>, <<18, 18>>, <<999, 9>> }

calculateDaysToReplenish(stock, avgWeeklySales) ==
    LET safeStock == OrZero(stock)
        safeSales == OrZero(avgWeeklySales)
    IN  IF safeSales = 0
        THEN Sentinel
        ELSE FloorDiv(7 * safeStock, safeSales)
               - (IF <<safeStock, safeSales>> \in RoundedBelow THEN 1 ELSE 0)

Variants == {"reorderPoint", "daysToReplenish", "stockVsSales"}

\* The metric each variant attaches to a record (none in the third variant).
deriveMetric(v, p) ==
    CASE v = "reorderPoint" ->
           Num(calculateReorderPoint(p.average_weekly_sales, p.lead_time))
      [] v = "daysToReplenish" ->
           Num(calculateDaysToReplenish(p.stock, p.average_weekly_sales))
      [] OTHER -> Undefined

\* One entry of trainingOutputs.
reorderPointLabel(p) ==
    LET reorderPoint == calculateReorderPoint(p.average_weekly_sales, p.lead_time)
    IN  IF JsLessEq(p.stock, Num(reorderPoint)) THEN 1 ELSE 0

\* daysToReplenishLabel with a strict comparison.
daysToReplenishLabelStrict(p) ==
    LET daysLeft == calculateDaysToReplenish(p.stock, p.average_weekly_sales)
    IN  IF daysLeft < OrZero(p.lead_time) THEN 1 ELSE 0

daysToReplenishLabel(p) ==
    LET daysLeft == calculateDaysToReplenish(p.stock, p.average_weekly_sales)
    IN  IF daysLeft <= OrZero(p.lead_time) THEN 1 ELSE 0

stockVsSalesLabel(p) ==
    IF JsLessEq(p.stock, Num(OrZero(p.average_weekly_sales))) THEN 1 ELSE 0

deriveLabel(v, p) ==
    CASE v = "reorderPoint" -> reorderPointLabel(p)
      [] v = "daysToReplenish" -> daysToReplenishLabel(p)
      [] OTHER -> stockVsSalesLabel(p)

\* featureRow without the  || 0  on lead_time.
featureRowRawLeadTime(p) ==
    << p.stock, Num(OrZero(p.average_weekly_sales)), p.lead_time >>

\* One row of trainingInputs, and the inference input of one product.
featureRow(p) ==
    << p.stock, Num(OrZero(p.average_weekly_sales)), Num(OrZero(p.lead_time)) >>

trainingInputs(ps) == [i \in 1..Len(ps) |-> featureRow(ps[i])]

trainingOutputs(v, ps) == [i \in 1..Len(ps) |-> deriveLabel(v, ps[i])]

\* ------------------------------------------------------------ environment
\* The records the catalog provider may deliver.  Two of them share a name.
Widget == [name |-> "Widget", stock |-> Num(10),
           average_weekly_sales |-> Num(7), lead_time |-> Num(2)]
Widget2 == [name |-> "Widget", stock |-> Undefined,
            average_weekly_sales |-> Num(0), lead_time |-> Null]

Gizmo == [name |-> "Gizmo", stock |-> Num(0),
          average_weekly_sales |-> Num(7), lead_time |-> Num(0)]

Records == {Widget, Widget2, Gizmo}

RECURSIVE SeqsUpTo(_, _)
SeqsUpTo(S, n) ==
    IF n = 0 THEN {<< >>}
    ELSE LET shorter == SeqsUpTo(S, n - 1)
         IN  shorter \cup {Append(s, x) : s \in {t \in shorter : Len(t) = n - 1}, x \in S}

Catalogs == SeqsUpTo(Records, MaxCatalog)

\* A trained model is opaque; all that the component observes of it is the
\* probability (in hundredths) that predict(...).data() yields for a row.
Models == {"half", "high", "byStock"}

predVal(m, row) ==
    CASE m = "half" -> 50
      [] m = "high" -> 51
      [] OTHER -> IF row[1].k = "number" /\ row[1].v <= 10 THEN 90 ELSE 10

\* prediction with an inclusive threshold.
predictionAtLeast(pv) == IF pv >= 50 THEN "Reorder" ELSE "No Reorder"

\* predVal > 0.5 ? 'Reorder' : 'No Reorder'
prediction(pv) == IF pv > 50 THEN "Reorder" ELSE "No Reorder"

NoError == "null"
FetchErrors == {"Fetch Failed!: 500 Internal Server Error", "Failed to fetch", ""}

errorMessage(msg) == IF msg = "" THEN "Error fetching products" ELSE msg

\* ------------------------------------------------------------------ state
VARIABLES
    variant,            \* which variant of the component is mounted
    products,           \* useState([])
    predictionResults,  \* useState([])
    loading,            \* useState(true)
    predicting,         \* useState(false)
    error,              \* useState(null)
    runs,               \* the invocations of handlePredict
    numTensors,         \* live transient tensors (tf.memory().numTensors)
    fitCalls,           \* number of model.fit calls made so far
    probe,              \* a single record handed to the label rules
    derived             \* what the label rule made of probe

vars == << variant, products, predictionResults, loading, predicting, error,
           runs, numTensors, fitCalls, probe, derived >>

Runs == 1..MaxRuns

\* Positions of one handlePredict invocation.
\*   idle      not invoked yet
\*   returned  left through the empty-catalog return
\*   fit       suspended at  await model.fit(...)
\*   data      suspended at  await model.predict(inputTensor).data()
\*   done      ran to its end
\*   rejected  an awaited promise rejected; the async function's own promise
\*             rejects and nobody handles it (onClick drops it)
InProgress == {"fit", "data"}

NotStarted ==
    [pc |-> "idle", model |-> "none", i |-> 0, preds |-> << >>,
     trainingInputs |-> << >>, trainingOutputs |-> << >>]

NoProbe == [name |-> "", stock |-> Undefined,
            average_weekly_sales |-> Undefined, lead_time |-> Undefined]
NoDerived == [rule |-> "none", metric |-> Undefined, label |-> 0]

Init ==
    /\ variant \in Variants
    /\ products = << >>
    /\ predictionResults = << >>
    /\ loading = TRUE
    /\ predicting = FALSE
    /\ error = NoError
    /\ runs = [r \in Runs |-> NotStarted]
    /\ numTensors = 0
    /\ fitCalls = 0
    /\ probe = NoProbe
    /\ derived = NoDerived

\* ------------------------------------------------------------------ fetch
\* .then(data => { setProducts(data.map(...)); setLoading(false) })
withMetric(v, p) ==
    [name |-> p.name, stock |-> p.stock,
     average_weekly_sales |-> p.average_weekly_sales,
     lead_time |-> p.lead_time, metric |-> deriveMetric(v, p)]

fetchResolved(data) ==
    /\ loading
    /\ products' = [i \in 1..Len(data) |-> withMetric(variant, data[i])]
    /\ loading' = FALSE
    /\ UNCHANGED << variant, predictionResults, predicting, error, runs,
                    numTensors, fitCalls, probe, derived >>

\* !res.ok, a network failure, a body that is not JSON or not an array:
\* all end in .catch(err => { setError(...); setLoading(false) })
\* fetchFailed keeping a partial catalog.
fetchFailedPartial(msg) ==
    /\ loading
    /\ error' = errorMessage(msg)
    /\ products' = << withMetric(variant, Widget) >>
    /\ loading' = FALSE
    /\ UNCHANGED << variant, predictionResults, predicting, runs,
                    numTensors, fitCalls, probe, derived >>

fetchFailed(msg) ==
    /\ loading
    /\ error' = errorMessage(msg)
    /\ loading' = FALSE
    /\ UNCHANGED << variant, products, predictionResults, predicting, runs,
                    numTensors, fitCalls, probe, derived >>

\* ---------------------------------------------------------- handlePredict
\* catalogEmpty with the guard dropped.
catalogEmptyNever(ps) == FALSE

catalogEmpty(ps) == Len(ps) = 0

\* pushPred putting the entry in front.
pushPredFront(preds, entry) == << entry >> \o preds

pushPred(preds, entry) == Append(preds, entry)

predEntry(v, m, p) ==
    [name |-> p.name,
     prediction |-> prediction(predVal(m, featureRow(p))),
     stock |-> p.stock,
     avgSales |-> p.average_weekly_sales,
     leadTime |-> p.lead_time,
     metric |-> deriveMetric(v, p)]

\* continueLoop calling setPredictionResults in every iteration.
continueLoopPublishEach(r, run, preds, tensors) ==
    IF Len(preds) < Len(products)
    THEN /\ runs' = [runs EXCEPT ![r] =
                       [run EXCEPT !.pc = "data", !.i = Len(preds) + 1,
                                   !.preds = preds]]
         /\ numTensors' = tensors + 2
         /\ predictionResults' = preds
         /\ UNCHANGED predicting
    ELSE /\ runs' = [runs EXCEPT ![r] =
                       [run EXCEPT !.pc = "done", !.i = 0, !.preds = preds]]
         /\ numTensors' = tensors
         /\ predictionResults' = preds
         /\ predicting' = FALSE

\* The loop head with preds collected so far: either the next iteration runs
\* up to its await (inputTensor and the tensor returned by model.predict are
\* allocated), or the loop is over and the results are published.
continueLoop(r, run, preds, tensors) ==
    IF Len(preds) < Len(products)
    THEN /\ runs' = [runs EXCEPT ![r] =
                       [run EXCEPT !.pc = "data", !.i = Len(preds) + 1,
                                   !.preds = preds]]
         /\ numTensors' = tensors + 2
         /\ UNCHANGED << predictionResults, predicting >>
    ELSE /\ runs' = [runs EXCEPT ![r] =
                       [run EXCEPT !.pc = "done", !.i = 0, !.preds = preds]]
         /\ numTensors' = tensors
         /\ predictionResults' = preds
         /\ predicting' = FALSE

\* Entry of handlePredict up to  await model.fit(trainXs, trainYs, ...).
handlePredict(r) ==
    /\ runs[r].pc = "idle"
    /\ \A q \in Runs : q < r => runs[q].pc # "idle"
    /\ IF catalogEmpty(products)
       THEN /\ runs' = [runs EXCEPT ![r].pc = "returned"]
            /\ UNCHANGED << predicting, numTensors, fitCalls >>
       ELSE /\ predicting' = TRUE
            /\ runs' = [runs EXCEPT ![r] =
                          [NotStarted EXCEPT
                             !.pc = "fit",
                             !.trainingInputs = trainingInputs(products),
                             !.trainingOutputs = trainingOutputs(variant, products)]]
            /\ numTensors' = numTensors + 2
            /\ fitCalls' = fitCalls + 1
    /\ UNCHANGED << variant, products, predictionResults, loading, error,
                    probe, derived >>

\* model.fit resolves: both training tensors are disposed and the loop starts.
fitResolved(r, m) ==
    /\ runs[r].pc = "fit"
    /\ continueLoop(r, [runs[r] EXCEPT !.model = m], << >>, numTensors - 2)
    /\ UNCHANGED << variant, products, loading, error, fitCalls, probe, derived >>

\* model.fit rejects: the rest of handlePredict is skipped.
fitRejected(r) ==
    /\ runs[r].pc = "fit"
    /\ runs' = [runs EXCEPT ![r].pc = "rejected"]
    /\ UNCHANGED << variant, products, predictionResults, loading, predicting,
                    error, numTensors, fitCalls, probe, derived >>

\* dataResolved without inputTensor.dispose().
dataResolvedKeepInput(r) ==
    /\ runs[r].pc = "data"
    /\ LET run == runs[r]
           p == products[run.i]
       IN  continueLoop(r, run,
                        pushPred(run.preds, predEntry(variant, run.model, p)),
                        numTensors)
    /\ UNCHANGED << variant, products, loading, error, fitCalls, probe, derived >>

\* .data() resolves for product i: inputTensor is disposed, the entry is
\* pushed, and the loop goes on.
dataResolved(r) ==
    /\ runs[r].pc = "data"
    /\ LET run == runs[r]
           p == products[run.i]
       IN  continueLoop(r, run,
                        pushPred(run.preds, predEntry(variant, run.model, p)),
                        numTensors - 1)
    /\ UNCHANGED << variant, products, loading, error, fitCalls, probe, derived >>

\* .data() rejects for product i.
dataRejected(r) ==
    /\ runs[r].pc = "data"
    /\ runs' = [runs EXCEPT ![r].pc = "rejected"]
    /\ UNCHANGED << variant, products, predictionResults, loading, predicting,
                    error, numTensors, fitCalls, probe, derived >>

Next ==
    \/ \E data \in Catalogs : fetchResolved(data)
    \/ \E msg \in FetchErrors : fetchFailed(msg)
    \/ \E r \in Runs : handlePredict(r)
    \/ \E r \in Runs, m \in Models : fitResolved(r, m)
    \/ \E r \in Runs : fitRejected(r)
    \/ \E r \in Runs : dataResolved(r)
    \/ \E r \in Runs : dataRejected(r)

Spec == Init /\ [][Next]_vars

\* ---------------------------------------------------------------- render
\* The table body is rendered once loading is over and no error is set.
rendered == loading = FALSE /\ error = NoError

\* (predictionResults.length > 0 ? predictionResults : products)
displayedRows ==
    IF Len(predictionResults) > 0 THEN predictionResults ELSE products

\* p.f : a property the row does not have reads as undefined.
field(row, f) == IF f \in DOMAIN row THEN row[f] ELSE Undefined

\* a || b
JsOr(a, b) == IF a.k = "number" /\ a.v # 0 THEN a ELSE b

\* Whether the metric cell of a row gets className 'text-danger fw-bold'.
\* The row's reorder_point / days_to_replenish property is the field metric;
\* the third variant renders no metric cell.
metricHighlighted(v, row) ==
    CASE v = "reorderPoint" ->
           JsLessEq(field(row, "stock"), field(row, "metric"))
      [] v = "daysToReplenish" ->
           JsLessEq(field(row, "metric"),
                    JsOr(field(row, "leadTime"), field(row, "lead_time")))
      [] OTHER -> FALSE

\* ------------------------------------------------- the label rules alone
\* A single record with fields drawn from a range of numbers (negative
\* ones, zero, the numbers of the documented examples, the sentinel and its
\* successor), null and undefined is handed to the mounted variant's rule.
Landmarks == {5, 7, 9, 10, 14, 21, 999, 1000}

FieldValues == {Num(n) : n \in (0 - MaxNum)..MaxNum \cup Landmarks} \cup {Undefined, Null}

ProbeRecords ==
    [name : {"probe"}, stock : FieldValues,
     average_weekly_sales : FieldValues, lead_time : FieldValues]

InitLabel ==
    /\ variant \in Variants
    /\ products = << >>
    /\ predictionResults = << >>
    /\ loading = TRUE
    /\ predicting = FALSE
    /\ error = NoError
    /\ runs = [r \in Runs |-> NotStarted]
    /\ numTensors = 0
    /\ fitCalls = 0
    /\ probe \in ProbeRecords
    /\ derived = NoDerived

\* products.map(p => ...) of trainingOutputs applied to the one record.
labelRecord ==
    /\ derived = NoDerived
    /\ derived' = [rule |-> variant,
                   metric |-> deriveMetric(variant, probe),
                   label |-> deriveLabel(variant, probe)]
    /\ UNCHANGED << variant, products, predictionResults, loading, predicting,
                    error, runs, numTensors, fitCalls, probe >>

NextLabel == labelRecord

SpecLabel == InitLabel /\ [][NextLabel]_vars

\* =================================================================== claims
Started(r) == runs[r].pc \in {"fit", "data", "done", "rejected"}

\* C1: a prediction run unconditionally returns to Idle: once no invocation
\* of handlePredict is suspended at an await any more (each one has ended,
\* by running to its end or by a failed training or inference step), the
\* predicting flag is cleared.
C1_RunReturnsToIdle ==
    (\A r \in Runs : runs[r].pc \notin InProgress) => predicting = FALSE

\* C2: re-entrancy guard: at most one run is in Training or Inferring at any
\* time; a request arriving while a run is in progress does not start one.
C2_AtMostOneRun ==
    Cardinality({r \in Runs : runs[r].pc \in InProgress}) <= 1

\* C3: resource discipline: whenever the run state is Idle (predicting is
\* false) no transient tensor is still allocated.
C3_NoTensorLeftWhenIdle ==
    predicting = FALSE => numTensors = 0

\* C4: empty catalog is a no-op: while the catalog is empty, whatever number
\* of prediction runs has been requested, predicting is false, the result
\* sequence is empty, no tensor is allocated and model.fit was never called.
C4_EmptyCatalogNoOp ==
    products = << >> =>
        /\ predicting = FALSE
        /\ predictionResults = << >>
        /\ numTensors = 0
        /\ fitCalls = 0
        /\ \A r \in Runs : runs[r].pc \in {"idle", "returned"}

C4_Witness ==
    /\ products = << >>
    /\ loading = FALSE
    /\ error = NoError
    /\ \E r \in Runs : runs[r].pc = "returned"

\* C5: result order and cardinality: once a run has succeeded, the published
\* result sequence has one entry per catalog record and its i-th entry is
\* the result of the i-th record (name, inputs, and the decision of the
\* publishing run's model for that record), also when names repeat.
C5_ResultOrderAndCardinality ==
    (\E r \in Runs : runs[r].pc = "done") =>
        /\ Len(predictionResults) = Len(products)
        /\ \A i \in 1..Len(products) :
              /\ predictionResults[i].name = products[i].name
              /\ predictionResults[i].stock = products[i].stock
              /\ predictionResults[i].avgSales = products[i].average_weekly_sales
              /\ predictionResults[i].leadTime = products[i].lead_time
        /\ \E r \in Runs :
              /\ runs[r].pc = "done"
              /\ \A i \in 1..Len(products) :
                    predictionResults[i].prediction =
                        prediction(predVal(runs[r].model,
                            << products[i].stock,
                               Num(OrZero(products[i].average_weekly_sales)),
                               Num(OrZero(products[i].lead_time)) >>))

C5_Witness ==
    /\ \E r \in Runs : runs[r].pc = "done"
    /\ Len(products) = 2
    /\ products[1].name = products[2].name
    /\ products[1] # products[2]
    /\ Len(predictionResults) = 2

\* C6: a failing training or inference step is caught at the run boundary:
\* no invocation of handlePredict ends in a rejection that nobody handles.
C6_FailureIsCaught ==
    \A r \in Runs : runs[r].pc # "rejected"

\* C7: a failed catalog fetch is terminal: once the error is set it stays
\* set, the catalog and the result sequence stay empty, and no prediction
\* run enters Training or Inferring.
C7_FetchFailureTerminal ==
    /\ [](error # NoError =>
            /\ products = << >>
            /\ predictionResults = << >>
            /\ predicting = FALSE
            /\ \A r \in Runs : ~Started(r))
    /\ [][error # NoError => error' = error]_vars

C7_Witness ==
    /\ error # NoError
    /\ loading = FALSE
    /\ \E r \in Runs : runs[r].pc = "returned"

\* C8: dataset builder: every run that got past the builder holds a feature
\* matrix and a label vector with one entry per catalog record, row i being
\* [stock_i, average_weekly_sales_i or 0, lead_time_i or 0] and label i the
\* label rule's value for record i; on the empty catalog both are empty.
Or0(x) == IF x.k = "number" THEN x ELSE Num(0)

C8_DatasetBuilder ==
    /\ trainingInputs(<< >>) = << >>
    /\ trainingOutputs(variant, << >>) = << >>
    /\ \A r \in Runs : Started(r) =>
          /\ Len(runs[r].trainingInputs) = Len(products)
          /\ Len(runs[r].trainingOutputs) = Len(products)
          /\ \A i \in 1..Len(products) :
                /\ runs[r].trainingInputs[i] =
                      << products[i].stock,
                         Or0(products[i].average_weekly_sales),
                         Or0(products[i].lead_time) >>
                /\ runs[r].trainingOutputs[i] = deriveLabel(variant, products[i])

C8_Witness ==
    \E r \in Runs :
        /\ runs[r].pc = "fit"
        /\ Len(runs[r].trainingInputs) = 2
        /\ \E i \in 1..2 : products[i].lead_time = Null
        /\ \E i \in 1..2 : products[i].lead_time # Null

\* C9: reorder-point label rule: with every missing field (stock, sales,
\* lead time) read as 0, the label is 1 exactly when
\* stock <= average_weekly_sales * lead_time.
AsZero(x) == IF x.k = "number" THEN x.v ELSE 0

C9_ReorderPointLabel ==
    derived.rule = "reorderPoint" =>
        derived.label =
            (IF AsZero(probe.stock)
                  <= AsZero(probe.average_weekly_sales) * AsZero(probe.lead_time)
             THEN 1 ELSE 0)

C11_MetricTotalNonNegative ==
    derived.rule \in {"reorderPoint", "daysToReplenish"} =>
        /\ derived.metric.k = "number"
        /\ derived.metric.v >= 0

\* C12: days-to-replenish metric: calculateDaysToReplenish returns 999
\* whenever sales is 0 or missing, for every stock, and otherwise
\* floor(7 * stock / sales), missing stock read as 0.
C12_DaysToReplenishMetric ==
    derived.rule = "daysToReplenish" =>
        derived.metric =
            (IF AsZero(probe.average_weekly_sales) = 0
             THEN Num(999)
             ELSE Num(FloorDiv(7 * AsZero(probe.stock),
                               AsZero(probe.average_weekly_sales))))

\* C13: decision threshold: every result a run has produced carries exactly
\* one of the two decisions, and it is Reorder exactly when the run's model
\* gives that record's feature row a probability strictly above 0.5 (50
\* hundredths); a probability of exactly 0.5 gives No Reorder.
C13_DecisionThreshold ==
    /\ \A r \in Runs : \A i \in 1..Len(runs[r].preds) :
          LET pv == predVal(runs[r].model, featureRow(products[i]))
          IN  /\ runs[r].preds[i].prediction \in {"Reorder", "No Reorder"}
              /\ runs[r].preds[i].prediction = "Reorder" <=> pv > 50
              /\ pv = 50 => runs[r].preds[i].prediction = "No Reorder"
    /\ \A i \in 1..Len(predictionResults) :
          predictionResults[i].prediction \in {"Reorder", "No Reorder"}

C13_Witness ==
    \E r \in Runs :
        /\ runs[r].pc = "done"
        /\ runs[r].model = "half"
        /\ predictionResults = runs[r].preds
        /\ \A i \in 1..Len(predictionResults) :
              predictionResults[i].prediction = "No Reorder"

\* C14: event ordering within a run: an inference call is issued either by
\* the step in which the run's training completes (then it is the call for
\* record 1) or by the step in which the call for record i completes, its
\* entry is pushed and its input tensor is released (then it is the call
\* for record i + 1); a run suspended at an inference call has a trained
\* model and one entry for each earlier record.
InferenceIssued(r) ==
    /\ runs'[r].pc = "data"
    /\ runs[r].pc # "data" \/ runs'[r].i # runs[r].i

C14_EventOrdering ==
    /\ [](\A r \in Runs : runs[r].pc = "data" =>
            /\ runs[r].model \in Models
            /\ runs[r].i \in 1..Len(products)
            /\ Len(runs[r].preds) = runs[r].i - 1)
    /\ [][\A r \in Runs : InferenceIssued(r) =>
            \/ /\ runs[r].pc = "fit"
               /\ runs'[r].model \in Models
               /\ runs'[r].i = 1
               /\ runs'[r].preds = << >>
               /\ numTensors' = (numTensors - 2) + 2
            \/ /\ runs[r].pc = "data"
               /\ runs'[r].i = runs[r].i + 1
               /\ Len(runs'[r].preds) = runs[r].i
               /\ runs'[r].preds[runs[r].i].name = products[runs[r].i].name
               /\ runs'[r].preds[runs[r].i].stock = products[runs[r].i].stock
               /\ numTensors' = (numTensors - 1) + 2]_vars

C14_Witness ==
    \E r \in Runs :
        /\ runs[r].pc = "data"
        /\ runs[r].i = 2
        /\ Len(runs[r].preds) = 1
        /\ products[1] # products[2]

\* C15: every result a run has produced echoes its record: name, stock,
\* average weekly sales and lead time unchanged, a derived metric that is a
\* number equal to the metric function of the mounted variant applied to
\* that record, and one of the two decisions.
C15_ResultEchoesRecord ==
    \A r \in Runs : \A i \in 1..Len(runs[r].preds) :
        LET e == runs[r].preds[i]
            p == products[i]
        IN  /\ e.name = p.name
            /\ e.stock = p.stock
            /\ e.avgSales = p.average_weekly_sales
            /\ e.leadTime = p.lead_time
            /\ e.prediction \in {"Reorder", "No Reorder"}
            /\ e.metric.k = "number"
            /\ e.metric \in
                 { Num(calculateReorderPoint(p.average_weekly_sales, p.lead_time)),
                   Num(calculateDaysToReplenish(p.stock, p.average_weekly_sales)) }

\* C16: results are published atomically: in every state the published
\* sequence is empty or is the complete result sequence of a finished run,
\* one entry per catalog record; a step in which a run fails, and a step in
\* which a run stays in progress, leaves the published sequence unchanged.
C16_AtomicPublication ==
    /\ [](\/ predictionResults = << >>
          \/ /\ Len(predictionResults) = Len(products)
             /\ \E r \in Runs : /\ runs[r].pc = "done"
                                /\ runs[r].preds = predictionResults)
    /\ [][\A r \in Runs :
            (runs'[r] # runs[r] /\ runs'[r].pc # "done")
               => predictionResults' = predictionResults]_vars

C16_Witness ==
    \E r, q \in Runs :
        /\ runs[r].pc = "done"
        /\ Len(predictionResults) = 2
        /\ runs[q].pc = "rejected"
        /\ runs[q].i = 2
        /\ Len(runs[q].preds) = 1
        /\ runs[q].model # runs[r].model

\* C17: display highlighting follows the label rule: in the variants that
\* render a metric cell, every displayed row (a catalog record before any
\* run, a prediction result after one) has its metric cell highlighted
\* exactly when the training label of that product is 1.
C17_HighlightMatchesLabel ==
    (rendered /\ variant \in {"reorderPoint", "daysToReplenish"}) =>
        \A i \in 1..Len(displayedRows) :
            metricHighlighted(variant, displayedRows[i])
                <=> deriveLabel(variant, products[i]) = 1
====
